---- MODULE Spec2Model ----
(***************************************************************************)
(* Terminal portfolio (src/src/app/page.tsx): the command interpreter      *)
(* handleCommand, the history navigation of onKeyDown and the persistence  *)
(* of theme and history through useLocalStorage.                           *)
(*                                                                         *)
(* A JavaScript string is a sequence of one-character strings, so that     *)
(* trim, split, toLowerCase, parseInt, escapeHtml and JSON act on          *)
(* characters.  The fixed text of a template literal is kept as one        *)
(* element of the sequence (a fragment); text interpolated into it is      *)
(* spliced in character by character.  A character outside ASCII is        *)
(* written as its \uXXXX escape inside a fragment.                         *)
(***************************************************************************)
EXTENDS Integers, Sequences, FiniteSets, TLC

VARIABLES theme, history, historyIdx, input, output,
          localStorage, pending, opened, clipboard, clipboardApi

vars == <<theme, history, historyIdx, input, output,
          localStorage, pending, opened, clipboard, clipboardApi>>

---------------------------------------------------------------------------
(* Bounds of the model.                                                    *)

\* Commands recorded in the history in the sessions of Spec.
MaxHistory == 3
\* Commands recorded in the history in the sessions of the command specs.
MaxCommands == 2
\* Clipboard writes that may be unsettled at the same time.
MaxPending == 2

---------------------------------------------------------------------------
(* String primitives of the JavaScript runtime.                            *)

Whitespace == {" ", "\t"}

Digits == {"0", "1", "2", "3", "4", "5", "6", "7", "8", "9"}

UpperCase == {"A", "B", "C", "D", "E", "F", "G", "H", "I", "J", "K", "L", "M",
              "N", "O", "P", "Q", "R", "S", "T", "U", "V", "W", "X", "Y", "Z"}

toLowerChar(c) ==
    CASE c = "A" -> "a" [] c = "B" -> "b" [] c = "C" -> "c" [] c = "D" -> "d"
      [] c = "E" -> "e" [] c = "F" -> "f" [] c = "G" -> "g" [] c = "H" -> "h"
      [] c = "I" -> "i" [] c = "J" -> "j" [] c = "K" -> "k" [] c = "L" -> "l"
      [] c = "M" -> "m" [] c = "N" -> "n" [] c = "O" -> "o" [] c = "P" -> "p"
      [] c = "Q" -> "q" [] c = "R" -> "r" [] c = "S" -> "s" [] c = "T" -> "t"
      [] c = "U" -> "u" [] c = "V" -> "v" [] c = "W" -> "w" [] c = "X" -> "x"
      [] c = "Y" -> "y" [] c = "Z" -> "z" [] OTHER -> c

\* String.prototype.toLowerCase
toLowerCase(s) == [i \in 1..Len(s) |-> toLowerChar(s[i])]

RECURSIVE trimStart(_)
trimStart(s) ==
    IF s # <<>> /\ Head(s) \in Whitespace THEN trimStart(Tail(s)) ELSE s

RECURSIVE trimEnd(_)
trimEnd(s) ==
    IF s # <<>> /\ s[Len(s)] \in Whitespace
    THEN trimEnd(SubSeq(s, 1, Len(s) - 1))
    ELSE s

\* String.prototype.trim
trim(s) == trimEnd(trimStart(s))

\* String.prototype.split(/\s+/): the pieces between the runs of whitespace;
\* cur is the piece being read, and a run of whitespace closes it once.
RECURSIVE splitFrom(_, _, _)
splitFrom(s, cur, inRun) ==
    IF s = <<>> THEN <<cur>>
    ELSE IF Head(s) \in Whitespace
         THEN IF inRun THEN splitFrom(Tail(s), cur, TRUE)
              ELSE <<cur>> \o splitFrom(Tail(s), <<>>, TRUE)
         ELSE splitFrom(Tail(s), Append(cur, Head(s)), FALSE)

split(s) == splitFrom(s, <<>>, FALSE)

\* Array.prototype.join(" ")
RECURSIVE join(_)
join(parts) ==
    IF parts = <<>> THEN <<>>
    ELSE IF Len(parts) = 1 THEN parts[1]
    ELSE parts[1] \o <<" ">> \o join(Tail(parts))

digitValue(c) ==
    CASE c = "0" -> 0 [] c = "1" -> 1 [] c = "2" -> 2 [] c = "3" -> 3
      [] c = "4" -> 4 [] c = "5" -> 5 [] c = "6" -> 6 [] c = "7" -> 7
      [] c = "8" -> 8 [] c = "9" -> 9

RECURSIVE leadingDigits(_)
leadingDigits(s) ==
    IF s # <<>> /\ Head(s) \in Digits
    THEN <<Head(s)>> \o leadingDigits(Tail(s))
    ELSE <<>>

RECURSIVE digitsValue(_, _)
digitsValue(ds, acc) ==
    IF ds = <<>> THEN acc
    ELSE digitsValue(Tail(ds), 10 * acc + digitValue(Head(ds)))

\* parseInt(s, 10): leading whitespace, an optional sign, then the longest run
\* of digits; NaN when there is no digit.  The result is [nan, val].
parseInt(s) ==
    LET t    == trimStart(s)
        neg  == t # <<>> /\ Head(t) = "-"
        body == IF t # <<>> /\ Head(t) \in {"-", "+"} THEN Tail(t) ELSE t
        ds   == leadingDigits(body)
    IN  IF ds = <<>> THEN [nan |-> TRUE, val |-> 0]
        ELSE [nan |-> FALSE,
              val |-> IF neg THEN 0 - digitsValue(ds, 0) ELSE digitsValue(ds, 0)]

digitChar(d) ==
    CASE d = 0 -> "0" [] d = 1 -> "1" [] d = 2 -> "2" [] d = 3 -> "3"
      [] d = 4 -> "4" [] d = 5 -> "5" [] d = 6 -> "6" [] d = 7 -> "7"
      [] d = 8 -> "8" [] d = 9 -> "9"

RECURSIVE natToString(_)
natToString(n) ==
    IF n < 10 THEN <<digitChar(n)>>
    ELSE natToString(n \div 10) \o <<digitChar(n % 10)>>

\* The text a number takes inside a template literal: `${n}`.
numberToString(n) ==
    IF n < 0 THEN <<"-">> \o natToString(0 - n) ELSE natToString(n)

\* String.prototype.replaceAll(c, rep) for a one-character pattern c: every
\* occurrence of c, from left to right; a string without c is the result as
\* it is.
RECURSIVE replaceAll(_, _, _)
replaceAll(s, c, rep) ==
    IF \A i \in 1..Len(s) : s[i] # c THEN s
    ELSE (IF Head(s) = c THEN rep ELSE <<Head(s)>>) \o replaceAll(Tail(s), c, rep)

\* Mutant of escapeHtml: the pass that replaces the apostrophe is missing.
escapeHtmlNoApostrophe(s) ==
    LET s1 == replaceAll(s, "&", <<"&", "a", "m", "p", ";">>)
        s2 == replaceAll(s1, "<", <<"&", "l", "t", ";">>)
        s3 == replaceAll(s2, ">", <<"&", "g", "t", ";">>)
    IN  replaceAll(s3, "\"", <<"&", "q", "u", "o", "t", ";">>)

\* escapeHtml: five replaceAll passes, in the order of the source.
escapeHtml(s) ==
    LET s1 == replaceAll(s, "&", <<"&", "a", "m", "p", ";">>)
        s2 == replaceAll(s1, "<", <<"&", "l", "t", ";">>)
        s3 == replaceAll(s2, ">", <<"&", "g", "t", ";">>)
        s4 == replaceAll(s3, "\"", <<"&", "q", "u", "o", "t", ";">>)
    IN  replaceAll(s4, "'", <<"&", "#", "0", "3", "9", ";">>)

strong(s) == <<"<span class='title'>">> \o escapeHtml(s) \o <<"</span>">>

code(s) ==
    <<"<code class='px-2 py-0.5 rounded bg-white/10'>">> \o escapeHtml(s)
        \o <<"</code>">>


\* String.prototype.includes: sub occurs in s as a substring.
includes(s, sub) ==
    \E i \in 0..(Len(s) - Len(sub)) : SubSeq(s, i + 1, i + Len(sub)) = sub

---------------------------------------------------------------------------
(* JSON, as useLocalStorage uses it: strings and arrays of strings are the  *)
(* values the application writes; a primitive literal (null, true, false,  *)
(* a number) parses to a value that is no string, kept as its literal.     *)

jsonEscapeChar(c) ==
    CASE c = "\"" -> <<"\\", "\"">>
      [] c = "\\" -> <<"\\", "\\">>
      [] c = "\t" -> <<"\\", "t">>
      [] OTHER -> <<c>>

RECURSIVE jsonEscape(_)
jsonEscape(s) ==
    IF s = <<>> THEN <<>> ELSE jsonEscapeChar(Head(s)) \o jsonEscape(Tail(s))

\* JSON.stringify of a string
stringifyString(s) == <<"\"">> \o jsonEscape(s) \o <<"\"">>

RECURSIVE stringifyItems(_)
stringifyItems(a) ==
    IF a = <<>> THEN <<>>
    ELSE IF Len(a) = 1 THEN stringifyString(a[1])
    ELSE stringifyString(a[1]) \o <<",">> \o stringifyItems(Tail(a))

\* JSON.stringify of an array of strings
stringifyArray(a) == <<"[">> \o stringifyItems(a) \o <<"]">>

ParseFail == [ok |-> FALSE, val |-> <<>>, next |-> 0]

\* The string literal whose opening quote precedes raw[i]: its value and the
\* index after its closing quote.
RECURSIVE parseStringFrom(_, _, _)
parseStringFrom(raw, i, acc) ==
    IF i > Len(raw) THEN ParseFail
    ELSE IF raw[i] = "\"" THEN [ok |-> TRUE, val |-> acc, next |-> i + 1]
    ELSE IF raw[i] = "\\"
         THEN IF i + 1 > Len(raw) THEN ParseFail
              ELSE IF raw[i + 1] \in {"\"", "\\", "/"}
                   THEN parseStringFrom(raw, i + 2, Append(acc, raw[i + 1]))
              ELSE IF raw[i + 1] = "t"
                   THEN parseStringFrom(raw, i + 2, Append(acc, "\t"))
              ELSE ParseFail
    ELSE IF raw[i] = "\t" THEN ParseFail
    ELSE parseStringFrom(raw, i + 1, Append(acc, raw[i]))

\* The elements of an array from raw[i], the first character of an element.
RECURSIVE parseItemsFrom(_, _, _)
parseItemsFrom(raw, i, acc) ==
    IF i > Len(raw) \/ raw[i] # "\"" THEN ParseFail
    ELSE LET e == parseStringFrom(raw, i + 1, <<>>)
         IN  IF ~e.ok \/ e.next > Len(raw) THEN ParseFail
             ELSE IF raw[e.next] = "]"
                  THEN [ok |-> TRUE, val |-> Append(acc, e.val), next |-> e.next + 1]
             ELSE IF raw[e.next] = ","
                  THEN parseItemsFrom(raw, e.next + 1, Append(acc, e.val))
             ELSE ParseFail

JsonLiterals == {<<"n", "u", "l", "l">>,
                 <<"t", "r", "u", "e">>,
                 <<"f", "a", "l", "s", "e">>}

\* JSON.parse: [ok, kind, val]; ok = FALSE is the SyntaxError it throws.
JSONparse(raw) ==
    LET fail == [ok |-> FALSE, kind |-> "none", val |-> <<>>]
    IN  IF raw = <<>> THEN fail
        ELSE IF raw[1] = "\""
             THEN LET s == parseStringFrom(raw, 2, <<>>)
                  IN  IF s.ok /\ s.next = Len(raw) + 1
                      THEN [ok |-> TRUE, kind |-> "string", val |-> s.val]
                      ELSE fail
        ELSE IF raw[1] = "["
             THEN IF raw = <<"[", "]">>
                  THEN [ok |-> TRUE, kind |-> "array", val |-> <<>>]
                  ELSE LET a == parseItemsFrom(raw, 2, <<>>)
                       IN  IF a.ok /\ a.next = Len(raw) + 1
                           THEN [ok |-> TRUE, kind |-> "array", val |-> a.val]
                           ELSE fail
        ELSE IF raw \in JsonLiterals \/ leadingDigits(raw) = raw
             THEN [ok |-> TRUE, kind |-> "literal", val |-> raw]
        ELSE fail

\* What localStorage.getItem returns: a stored string, or null.
Stored(raw) == [has |-> TRUE, raw |-> raw]
Absent == [has |-> FALSE, raw |-> <<>>]

\* The state initializer of useLocalStorage: the initial value when the key is
\* absent, the parsed value when the stored text parses, and the stored text
\* itself when JSON.parse throws.
useLocalStorage(item, initial) ==
    IF ~item.has THEN initial
    ELSE LET p == JSONparse(item.raw)
         IN  IF p.ok THEN p.val ELSE item.raw


---------------------------------------------------------------------------
(* CONFIG and THEMES.                                                      *)

pageSize == 5

email == <<"h", "e", "l", "l", "o", "@", "e", "x", "a", "m", "p", "l", "e", ".",
           "c", "o", "m">>

github == <<"h", "t", "t", "p", "s", ":", "/", "/", "g", "i", "t", "h", "u", "b",
            ".", "c", "o", "m", "/", "y", "o", "u", "r", "n", "a", "m", "e">>
linkedin == <<"h", "t", "t", "p", "s", ":", "/", "/", "w", "w", "w", ".", "l", "i",
              "n", "k", "e", "d", "i", "n", ".", "c", "o", "m", "/", "i", "n", "/",
              "y", "o", "u", "r", "n", "a", "m", "e", "/">>
twitter == <<"h", "t", "t", "p", "s", ":", "/", "/", "t", "w", "i", "t", "t", "e",
             "r", ".", "c", "o", "m", "/", "y", "o", "u", "r", "n", "a", "m", "e">>

resumeUrl ==
    <<"h", "t", "t", "p", "s", ":", "/", "/", "w", "w", "w", ".", "w", "3", ".",
      "o", "r", "g", "/", "W", "A", "I", "/", "E", "R", "/", "t", "e", "s", "t",
      "s", "/", "x", "h", "t", "m", "l", "/", "t", "e", "s", "t", "f", "i", "l",
      "e", "s", "/", "r", "e", "s", "o", "u", "r", "c", "e", "s", "/", "p", "d",
      "f", "/", "d", "u", "m", "m", "y", ".", "p", "d", "f">>

bio ==
    [name |-> <<"A", "l", "o", "k", " ", "K", "u", "m", "a", "r", " ", "S", "a",
                "h">>,
     role |-> <<"F", "r", "o", "n", "t", "e", "n", "d", " ", "E", "n", "g", "i",
                "n", "e", "e", "r">>,
     location |-> <<"S", "o", "m", "e", "w", "h", "e", "r", "e", ",", " ", "E", "a",
                    "r", "t", "h">>,
     about |-> <<"I", " ", "c", "r", "a", "f", "t", " ", "f", "a", "s", "t", ",",
                 " ", "a", "c", "c", "e", "s", "s", "i", "b", "l", "e", " ", "w",
                 "e", "b", " ", "a", "p", "p", "s", ".", " ", "I", " ", "e", "n",
                 "j", "o", "y", " ", "s", "y", "s", "t", "e", "m", "s", " ", "d",
                 "e", "s", "i", "g", "n", ",", " ", "D", "X", ",", " ", "a", "n",
                 "d", " ", "b", "e", "a", "u", "t", "i", "f", "u", "l", " ", "U",
                 "I", "s", ".">>,
     skills |-> <<<<"T", "y", "p", "e", "S", "c", "r", "i", "p", "t">>,
                  <<"R", "e", "a", "c", "t">>,
                  <<"N", "e", "x", "t", ".", "j", "s">>,
                  <<"N", "o", "d", "e", ".", "j", "s">>,
                  <<"T", "a", "i", "l", "w", "i", "n", "d", " ", "C", "S", "S">>,
                  <<"T", "e", "s", "t", "i", "n", "g">>>>]

projects ==
    <<[title |-> <<"z", "e", "n", "s", "u">>,
       description |-> <<"A", " ", "c", "a", "l", "m", " ", "p", "r", "o", "d", "u",
                         "c", "t", "i", "v", "i", "t", "y", " ", "t", "o", "o", "l",
                         " ", "f", "o", "c", "u", "s", "e", "d", " ", "o", "n", " ",
                         "f", "l", "o", "w", " ", "a", "n", "d", " ", "m", "i", "n",
                         "i", "m", "a", "l", " ", "U", "I", ".">>,
       tech |-> <<<<"N", "e", "x", "t", ".", "j", "s">>,
                  <<"T", "y", "p", "e", "S", "c", "r", "i", "p", "t">>,
                  <<"T", "a", "i", "l", "w", "i", "n", "d">>>>,
       demoUrl |-> <<"#">>,
       sourceUrl |-> <<"h", "t", "t", "p", "s", ":", "/", "/", "g", "i", "t", "h",
                       "u", "b", ".", "c", "o", "m", "/", "a", "l", "o", "k", "k",
                       "u", "m", "a", "x", "/", "z", "e", "n", "s", "u">>],
      [title |-> <<"d", "a", "n", "g", "e", "r", " ", "a", "h", "e", "a", "d">>,
       description |-> <<"R", "e", "a", "l", "t", "i", "m", "e", " ", "h", "a", "z",
                         "a", "r", "d", " ", "a", "l", "e", "r", "t", "s", " ", "d",
                         "e", "m", "o", " ", "w", "i", "t", "h", " ", "m", "a", "p",
                         " ", "o", "v", "e", "r", "l", "a", "y", "s", ".">>,
       tech |-> <<<<"R", "e", "a", "c", "t">>,
                  <<"W", "e", "b", "S", "o", "c", "k", "e", "t">>,
                  <<"M", "a", "p", "l", "i", "b", "r", "e">>>>,
       demoUrl |-> <<"#">>,
       sourceUrl |-> <<"h", "t", "t", "p", "s", ":", "/", "/", "g", "i", "t", "h",
                       "u", "b", ".", "c", "o", "m", "/", "a", "l", "o", "k", "k",
                       "u", "m", "a", "x", "/", "d", "a", "n", "g", "e", "r", "-",
                       "a", "h", "e", "a", "d">>],
      [title |-> <<"g", "r", "o", "c", "e", "r", "y", "C", "M", "S">>,
       description |-> <<"H", "e", "a", "d", "l", "e", "s", "s", " ", "C", "M", "S",
                         " ", "s", "t", "a", "r", "t", "e", "r", " ", "f", "o", "r",
                         " ", "s", "m", "a", "l", "l", " ", "g", "r", "o", "c", "e",
                         "r", "y", " ", "c", "a", "t", "a", "l", "o", "g", "s",
                         ".">>,
       tech |-> <<<<"N", "e", "x", "t", ".", "j", "s">>,
                  <<"P", "r", "i", "s", "m", "a">>,
                  <<"S", "Q", "L", "i", "t", "e">>>>,
       demoUrl |-> <<"#">>,
       sourceUrl |-> <<"h", "t", "t", "p", "s", ":", "/", "/", "g", "i", "t", "h",
                       "u", "b", ".", "c", "o", "m", "/", "a", "l", "o", "k", "k",
                       "u", "m", "a", "x", "/", "g", "r", "o", "c", "e", "r", "y",
                       "C", "M", "S">>],
      [title |-> <<"e", "c", "h", "o", "m", "e", "e", "t", "s">>,
       description |-> <<"L", "i", "g", "h", "t", "w", "e", "i", "g", "h", "t", " ",
                         "a", "u", "d", "i", "o", "-", "f", "i", "r", "s", "t", " ",
                         "m", "e", "e", "t", "i", "n", "g", " ", "n", "o", "t", "e",
                         "s", " ", "w", "i", "t", "h", " ", "t", "r", "a", "n", "s",
                         "c", "r", "i", "p", "t", "s", ".">>,
       tech |-> <<<<"T", "y", "p", "e", "S", "c", "r", "i", "p", "t">>,
                  <<"W", "e", "b", " ", "A", "u", "d", "i", "o">>,
                  <<"V", "A", "D">>>>,
       demoUrl |-> <<"#">>,
       sourceUrl |-> <<"h", "t", "t", "p", "s", ":", "/", "/", "g", "i", "t", "h",
                       "u", "b", ".", "c", "o", "m", "/", "a", "l", "o", "k", "k",
                       "u", "m", "a", "x", "/", "e", "c", "h", "o", "m", "e", "e",
                       "t", "s">>]>>

dark == <<"d", "a", "r", "k">>
matrix == <<"m", "a", "t", "r", "i", "x">>
solarized == <<"s", "o", "l", "a", "r", "i", "z", "e", "d">>
light == <<"l", "i", "g", "h", "t">>

\* The own keys of THEMES.
ThemeNames == {dark, matrix, solarized, light}

\* The property names every plain object inherits from Object.prototype: the
\* `in` operator and a property read both find them.
ObjectPrototypeKeys ==
    {<<"c", "o", "n", "s", "t", "r", "u", "c", "t", "o", "r">>,
     <<"_", "_", "p", "r", "o", "t", "o", "_", "_">>,
     <<"h", "a", "s", "O", "w", "n", "P", "r", "o", "p", "e", "r", "t", "y">>,
     <<"i", "s", "P", "r", "o", "t", "o", "t", "y", "p", "e", "O", "f">>,
     <<"p", "r", "o", "p", "e", "r", "t", "y", "I", "s", "E", "n", "u", "m", "e",
       "r", "a", "b", "l", "e">>,
     <<"t", "o", "L", "o", "c", "a", "l", "e", "S", "t", "r", "i", "n", "g">>,
     <<"t", "o", "S", "t", "r", "i", "n", "g">>,
     <<"v", "a", "l", "u", "e", "O", "f">>,
     <<"_", "_", "d", "e", "f", "i", "n", "e", "G", "e", "t", "t", "e", "r", "_",
       "_">>,
     <<"_", "_", "d", "e", "f", "i", "n", "e", "S", "e", "t", "t", "e", "r", "_",
       "_">>,
     <<"_", "_", "l", "o", "o", "k", "u", "p", "G", "e", "t", "t", "e", "r", "_",
       "_">>,
     <<"_", "_", "l", "o", "o", "k", "u", "p", "S", "e", "t", "t", "e", "r", "_",
       "_">>}

\* t in THEMES
inTHEMES(t) == t \in ThemeNames \/ t \in ObjectPrototypeKeys


---------------------------------------------------------------------------
(* The state setters a handler calls.  React queues the calls of one event *)
(* and applies them, in call order, before the next event is delivered.    *)

NoBlock == [id |-> 0, lines |-> <<>>]

setHistoryAppend(cmd) ==
    [set |-> "setHistory", str |-> cmd, num |-> 0, block |-> NoBlock]
setHistoryIdx(i) ==
    [set |-> "setHistoryIdx", str |-> <<>>, num |-> i, block |-> NoBlock]
setInput(s) ==
    [set |-> "setInput", str |-> s, num |-> 0, block |-> NoBlock]
setTheme(t) ==
    [set |-> "setTheme", str |-> t, num |-> 0, block |-> NoBlock]
setOutputEmpty ==
    [set |-> "setOutputEmpty", str |-> <<>>, num |-> 0, block |-> NoBlock]

\* print(lines): one OutputBlock appended to the scrollback.  The block's
\* random UUID is modelled by id, a value no other block has.
print(lines, id) ==
    [set |-> "setOutputAppend", str |-> <<>>, num |-> 0,
     block |-> [id |-> id, lines |-> lines]]

applyCall(st, c) ==
    CASE c.set = "setHistory" -> [st EXCEPT !.history = Append(@, c.str)]
      [] c.set = "setHistoryIdx" -> [st EXCEPT !.historyIdx = c.num]
      [] c.set = "setInput" -> [st EXCEPT !.input = c.str]
      [] c.set = "setTheme" -> [st EXCEPT !.theme = c.str]
      [] c.set = "setOutputEmpty" -> [st EXCEPT !.output = <<>>]
      [] c.set = "setOutputAppend" -> [st EXCEPT !.output = Append(@, c.block)]

RECURSIVE applyCalls(_, _)
applyCalls(st, calls) ==
    IF calls = <<>> THEN st
    ELSE applyCalls(applyCall(st, Head(calls)), Tail(calls))

---------------------------------------------------------------------------
(* The cases of handleCommand.  Each gives the setter calls it makes after *)
(* the common prefix, the window.open and clipboard.writeText calls, and   *)
(* whether it is left waiting for the clipboard or ends by throwing.       *)

Outcome(calls) ==
    [calls |-> calls, opens |-> <<>>, writes |-> <<>>, awaits |-> FALSE,
     throws |-> FALSE]

\* The em dash of the texts, one character.
emDash == <<"\\u2014">>

HelpDetails ==
    <<[key |-> <<"/", "h", "e", "l", "p">>,
       text |-> <<"U", "s", "a", "g", "e", ":", " ", "/", "h", "e", "l", "p", " ",
                  "[", "c", "o", "m", "m", "a", "n", "d", "]", " ">>
                \o emDash \o <<" ", "s", "h", "o", "w", " ", "a", "v", "a", "i",
                               "l", "a", "b", "l", "e", " ", "c", "o", "m", "m",
                               "a", "n", "d", "s", " ", "o", "r", " ", "d", "e",
                               "t", "a", "i", "l", "s", ".">>],
      [key |-> <<"/", "p", "r", "o", "j", "e", "c", "t", "s">>,
       text |-> <<"U", "s", "a", "g", "e", ":", " ", "/", "p", "r", "o", "j", "e",
                  "c", "t", "s", " ", "[", "p", "a", "g", "e", "]", " ">>
                \o emDash \o <<" ", "p", "a", "g", "i", "n", "a", "t", "e", "d",
                               " ", "l", "i", "s", "t", ".", " ", "'", "o", "p",
                               "e", "n", " ", "<", "n", ">", "'", " ", "t", "o",
                               " ", "o", "p", "e", "n", ".">>],
      [key |-> <<"/", "a", "b", "o", "u", "t">>,
       text |-> <<"U", "s", "a", "g", "e", ":", " ", "/", "a", "b", "o", "u", "t",
                  " ">>
                \o emDash \o <<" ", "s", "h", "o", "r", "t", " ", "b", "i", "o",
                               ",", " ", "r", "o", "l", "e", ",", " ", "l", "o",
                               "c", "a", "t", "i", "o", "n", ",", " ", "s", "k",
                               "i", "l", "l", "s", ".">>],
      [key |-> <<"/", "c", "o", "n", "t", "a", "c", "t">>,
       text |-> <<"U", "s", "a", "g", "e", ":", " ", "/", "c", "o", "n", "t", "a",
                  "c", "t", " ">>
                \o emDash \o <<" ", "e", "m", "a", "i", "l", " ", "a", "n", "d",
                               " ", "s", "o", "c", "i", "a", "l", "s", ".", " ",
                               "'", "c", "o", "p", "y", " ", "e", "m", "a", "i",
                               "l", "'", " ", "t", "o", " ", "c", "l", "i", "p",
                               "b", "o", "a", "r", "d", ".">>],
      [key |-> <<"/", "r", "e", "s", "u", "m", "e">>,
       text |-> <<"U", "s", "a", "g", "e", ":", " ", "/", "r", "e", "s", "u", "m",
                  "e", " ">>
                \o emDash \o <<" ", "o", "p", "e", "n", "/", "d", "o", "w", "n",
                               "l", "o", "a", "d", " ", "r", "e", "s", "u", "m",
                               "e", " ", "P", "D", "F", ".">>],
      [key |-> <<"/", "t", "h", "e", "m", "e">>,
       text |-> <<"U", "s", "a", "g", "e", ":", " ", "/", "t", "h", "e", "m", "e",
                  " ", "<", "l", "i", "g", "h", "t", "|", "d", "a", "r", "k", "|",
                  "m", "a", "t", "r", "i", "x", "|", "s", "o", "l", "a", "r", "i",
                  "z", "e", "d", ">", " ">>
                \o emDash \o <<" ", "s", "w", "i", "t", "c", "h", " ", "t", "h",
                               "e", "m", "e", ".">>],
      [key |-> <<"/", "c", "l", "e", "a", "r">>,
       text |-> <<"U", "s", "a", "g", "e", ":", " ", "/", "c", "l", "e", "a", "r",
                  " ">>
                \o emDash \o <<" ", "c", "l", "e", "a", "r", " ", "t", "e", "r",
                               "m", "i", "n", "a", "l", " ", "h", "i", "s", "t",
                               "o", "r", "y", " ", "(", "a", "l", "i", "a", "s",
                               ":", " ", "c", "l", "s", ")", ".">>]>>

\* case "/help": text = details[arg] || `No details for '${arg}'.`, printed
\* through escapeHtml; without an argument, the list of the commands.
caseHelp(arg, id) ==
    IF arg # <<>>
    THEN IF \E i \in 1..Len(HelpDetails) : HelpDetails[i].key = arg
         THEN LET i == CHOOSE j \in 1..Len(HelpDetails) : HelpDetails[j].key = arg
              IN  Outcome(<<print(<<escapeHtml(HelpDetails[i].text)>>, id)>>)
         ELSE IF arg \in ObjectPrototypeKeys
              \* details[arg] is an inherited function or object: it is truthy,
              \* and escapeHtml calls replaceAll on it, a TypeError.
              THEN [Outcome(<<>>) EXCEPT !.throws = TRUE]
         ELSE Outcome(<<print(<<escapeHtml(<<"N", "o", " ", "d", "e", "t", "a", "i",
                                             "l", "s", " ", "f", "o", "r", " ",
                                             "'">>
                                             \o arg \o <<"'", ".">>)>>, id)>>)
    ELSE Outcome(<<print(<<strong(<<"A", "v", "a", "i", "l", "a", "b", "l", "e",
                                    " ", "c", "o", "m", "m", "a", "n", "d", "s",
                                    ":">>),
                           code(<<"/", "h", "e", "l", "p">>),
                           code(<<"/", "h", "e", "l", "p", " ", "<", "c", "o", "m",
                                  "m", "a", "n", "d", ">">>),
                           code(<<"/", "p", "r", "o", "j", "e", "c", "t", "s", " ",
                                  "[", "p", "a", "g", "e", "]">>),
                           code(<<"o", "p", "e", "n", " ", "<", "n", ">">>),
                           code(<<"/", "a", "b", "o", "u", "t">>),
                           code(<<"/", "c", "o", "n", "t", "a", "c", "t">>),
                           code(<<"/", "r", "e", "s", "u", "m", "e">>),
                           code(<<"/", "t", "h", "e", "m", "e", " ", "<", "l", "i",
                                  "g", "h", "t", "|", "d", "a", "r", "k", "|", "m",
                                  "a", "t", "r", "i", "x", "|", "s", "o", "l", "a",
                                  "r", "i", "z", "e", "d", ">">>),
                           code(<<"/", "c", "l", "e", "a", "r", " ", "|", " ", "c",
                                  "l", "s">>)>>, id)>>)

Max(a, b) == IF a >= b THEN a ELSE b
Min(a, b) == IF a <= b THEN a ELSE b

RECURSIVE tagSpans(_)
tagSpans(ts) ==
    IF ts = <<>> THEN <<>>
    ELSE <<"<span class='tag'>">> \o escapeHtml(Head(ts)) \o <<"</span>">>
         \o (IF Len(ts) > 1 THEN <<" ">> ELSE <<>>) \o tagSpans(Tail(ts))

projectLine(index, p) ==
    numberToString(index) \o <<". <span class='title'>">> \o escapeHtml(p.title)
        \o <<"</span> \\u2014 ">> \o escapeHtml(p.description)
        \o <<" <span class='dim'>">> \o tagSpans(p.tech)
        \o <<"</span> \n <a href='">> \o p.demoUrl
        \o <<"' target='_blank' rel='noreferrer'>demo</a> \\u00b7 <a href='">>
        \o p.sourceUrl \o <<"' target='_blank' rel='noreferrer'>source</a>">>

\* Mutant of caseProjects: the page is used as a 0-based page number.
caseProjectsPageZeroBased(rest, id) ==
    LET n == parseInt(IF rest # <<>> THEN rest[1] ELSE <<"1">>)
        page == Max(1, IF n.nan \/ n.val = 0 THEN 1 ELSE n.val)
        start == page * pageSize
        last == Min(start + pageSize, Len(projects))
        slice == IF start >= Len(projects) THEN <<>>
                 ELSE SubSeq(projects, start + 1, last)
        totalPages == Max(1, (Len(projects) + pageSize - 1) \div pageSize)
    IN  IF slice = <<>>
        THEN Outcome(<<print(<<<<"No projects on page ">> \o numberToString(page)
                                   \o <<".">>>>, id)>>)
        ELSE Outcome(<<print(
                <<<<"Projects (page ">> \o numberToString(page) \o <<"/">>
                      \o numberToString(totalPages) \o <<"):">>>>
                \o [i \in 1..Len(slice) |-> projectLine(start + i, slice[i])]
                \o <<<<"Type 'open <n>' to open demo in a new tab.">>>>, id)>>)

caseProjects(rest, id) ==
    LET n == parseInt(IF rest # <<>> THEN rest[1] ELSE <<"1">>)
        page == Max(1, IF n.nan \/ n.val = 0 THEN 1 ELSE n.val)
        start == (page - 1) * pageSize
        last == Min(start + pageSize, Len(projects))
        slice == IF start >= Len(projects) THEN <<>>
                 ELSE SubSeq(projects, start + 1, last)
        totalPages == Max(1, (Len(projects) + pageSize - 1) \div pageSize)
    IN  IF slice = <<>>
        THEN Outcome(<<print(<<<<"No projects on page ">> \o numberToString(page)
                                   \o <<".">>>>, id)>>)
        ELSE Outcome(<<print(
                <<<<"Projects (page ">> \o numberToString(page) \o <<"/">>
                      \o numberToString(totalPages) \o <<"):">>>>
                \o [i \in 1..Len(slice) |-> projectLine(start + i, slice[i])]
                \o <<<<"Type 'open <n>' to open demo in a new tab.">>>>, id)>>)

\* Mutant of caseOpen: every n below 1 is answered with the usage line.
caseOpenRejectsNegative(rest, id) ==
    LET n == parseInt(IF rest # <<>> THEN rest[1] ELSE <<>>)
    IN  IF n.nan \/ n.val <= 0
        THEN Outcome(<<print(<<<<"Usage: open <n> \\u2014 open the nth project demo.">>>>,
                             id)>>)
        ELSE IF n.val - 1 \notin 0..(Len(projects) - 1)
        THEN Outcome(<<print(<<<<"Project ">> \o numberToString(n.val)
                                   \o <<" not found.">>>>, id)>>)
        ELSE LET proj == projects[n.val]
             IN  [Outcome(<<print(<<<<"Opening ">> \o escapeHtml(proj.title)
                                        \o <<"...">>>>, id)>>)
                    EXCEPT !.opens = <<proj.demoUrl>>]

\* Mutant of caseOpen: n is used as a 0-based index, projects[n].
caseOpenZeroBased(rest, id) ==
    LET n == parseInt(IF rest # <<>> THEN rest[1] ELSE <<>>)
    IN  IF n.nan \/ n.val = 0
        THEN Outcome(<<print(<<<<"Usage: open <n> \\u2014 open the nth project demo.">>>>,
                             id)>>)
        ELSE IF n.val \notin 0..(Len(projects) - 1)
        THEN Outcome(<<print(<<<<"Project ">> \o numberToString(n.val)
                                   \o <<" not found.">>>>, id)>>)
        ELSE LET proj == projects[n.val + 1]
             IN  [Outcome(<<print(<<<<"Opening ">> \o escapeHtml(proj.title)
                                        \o <<"...">>>>, id)>>)
                    EXCEPT !.opens = <<proj.demoUrl>>]

caseOpen(rest, id) ==
    LET n == parseInt(IF rest # <<>> THEN rest[1] ELSE <<>>)
    IN  IF n.nan \/ n.val = 0
        THEN Outcome(<<print(<<<<"Usage: open <n> \\u2014 open the nth project demo.">>>>,
                             id)>>)
        ELSE IF n.val - 1 \notin 0..(Len(projects) - 1)
        THEN Outcome(<<print(<<<<"Project ">> \o numberToString(n.val)
                                   \o <<" not found.">>>>, id)>>)
        ELSE LET proj == projects[n.val]
             IN  [Outcome(<<print(<<<<"Opening ">> \o escapeHtml(proj.title)
                                        \o <<"...">>>>, id)>>)
                    EXCEPT !.opens = <<proj.demoUrl>>]

caseAbout(id) ==
    Outcome(<<print(<<strong(bio.name \o <<" \\u2014 ">> \o bio.role),
                      escapeHtml(bio.location),
                      escapeHtml(bio.about),
                      <<"Skills: ">> \o tagSpans(bio.skills)>>, id)>>)

caseContact(id) ==
    Outcome(<<print(
        <<<<"Email: <a href='mailto:">> \o email \o <<"'>">> \o email
              \o <<"</a> (type 'copy email')">>,
          <<"GitHub: <a href='">> \o github
              \o <<"' target='_blank' rel='noreferrer'>">> \o github \o <<"</a>">>,
          <<"LinkedIn: <a href='">> \o linkedin
              \o <<"' target='_blank' rel='noreferrer'>">> \o linkedin \o <<"</a>">>,
          <<"Twitter: <a href='">> \o twitter
              \o <<"' target='_blank' rel='noreferrer'>">> \o twitter \o <<"</a>">>>>,
        id)>>)

CopiedLine == <<"Email copied to clipboard.">>
CopyFailedLine == <<"Copy failed \\u2014 your browser blocked clipboard access.">>

\* clip says what navigator.clipboard.writeText does when called: "promise",
\* it returns a promise that settles later; "absent", navigator.clipboard is
\* undefined (a page outside a secure context) and the call throws a
\* TypeError, which the catch of the handler receives at once.
\* Mutant of caseCopy: the argument is compared without lowercasing.
caseCopyNoLowerCase(arg, id, clip) ==
    IF arg = <<"e", "m", "a", "i", "l">>
    THEN IF clip = "absent"
         THEN Outcome(<<print(<<CopyFailedLine>>, id)>>)
         ELSE [Outcome(<<>>) EXCEPT !.writes = <<email>>, !.awaits = TRUE]
    ELSE Outcome(<<print(<<<<"Usage: copy email">>>>, id)>>)

caseCopy(arg, id, clip) ==
    IF toLowerCase(arg) = <<"e", "m", "a", "i", "l">>
    THEN IF clip = "absent"
         THEN Outcome(<<print(<<CopyFailedLine>>, id)>>)
         ELSE [Outcome(<<>>) EXCEPT !.writes = <<email>>, !.awaits = TRUE]
    ELSE Outcome(<<print(<<<<"Usage: copy email">>>>, id)>>)

caseResume(id) ==
    [Outcome(<<print(<<<<"Opening resume.pdf \\u2026">>>>, id)>>)
        EXCEPT !.opens = <<resumeUrl>>]

\* Mutant of caseTheme: the argument is not lowercased.
caseThemeNoLowerCase(rest, id) ==
    IF rest = <<>> \/ ~inTHEMES(rest[1])
    THEN Outcome(<<print(<<<<"Usage: /theme <light|dark|matrix|solarized>">>>>, id)>>)
    ELSE Outcome(<<setTheme(rest[1]),
                   print(<<<<"Theme set to ">> \o rest[1] \o <<".">>>>, id)>>)

caseTheme(rest, id) ==
    IF rest = <<>> \/ ~inTHEMES(toLowerCase(rest[1]))
    THEN Outcome(<<print(<<<<"Usage: /theme <light|dark|matrix|solarized>">>>>, id)>>)
    ELSE LET t == toLowerCase(rest[1])
         IN  Outcome(<<setTheme(t),
                       print(<<<<"Theme set to ">> \o t \o <<".">>>>, id)>>)

\* Mutant of caseClear: the scrollback is left as it is.
caseClearKeepsOutput == Outcome(<<>>)

caseClear == Outcome(<<setOutputEmpty>>)

hay(p) == toLowerCase(p.title \o <<" ">> \o p.description \o <<" ">> \o join(p.tech))

\* Mutant of searchMatches: one sub-term found is enough (some, not every).
RECURSIVE searchMatchesAny(_, _)
searchMatchesAny(term, i) ==
    IF i > Len(projects) THEN <<>>
    ELSE (IF \E k \in 1..Len(split(term)) : includes(hay(projects[i]), split(term)[k])
          THEN <<i>> ELSE <<>>) \o searchMatchesAny(term, i + 1)

RECURSIVE searchMatches(_, _)
searchMatches(term, i) ==
    IF i > Len(projects) THEN <<>>
    ELSE (IF \A k \in 1..Len(split(term)) : includes(hay(projects[i]), split(term)[k])
          THEN <<i>> ELSE <<>>) \o searchMatches(term, i + 1)

caseSearch(arg, id) ==
    LET term == toLowerCase(arg)
        matches == searchMatches(term, 1)
    IN  IF term = <<>> THEN Outcome(<<print(<<<<"Usage: search <term>">>>>, id)>>)
        ELSE IF matches = <<>>
        THEN Outcome(<<print(<<<<"No matches for '">> \o escapeHtml(term)
                                   \o <<"'.">>>>, id)>>)
        ELSE Outcome(<<print(
                <<strong(<<"Search results (">> \o numberToString(Len(matches))
                           \o <<"):">>)>>
                \o [k \in 1..Len(matches) |->
                      numberToString(matches[k]) \o <<". <span class='title'>">>
                        \o escapeHtml(projects[matches[k]].title)
                        \o <<"</span> \\u2014 ">>
                        \o escapeHtml(projects[matches[k]].description)], id)>>)

caseDefault(name, arg, id) ==
    IF toLowerCase(name) = <<"s", "e", "a", "r", "c", "h">> THEN caseSearch(arg, id)
    ELSE Outcome(<<print(<<<<"Command not found: ">> \o escapeHtml(name)
                               \o <<". Type /help.">>>>, id)>>)

\* The switch on name.toLowerCase().
dispatch(name, rest, arg, id, clip) ==
    LET n == toLowerCase(name)
    IN  CASE n = <<"/", "h", "e", "l", "p">> -> caseHelp(arg, id)
          [] n = <<"/", "p", "r", "o", "j", "e", "c", "t", "s">> -> caseProjects(rest, id)
          [] n = <<"o", "p", "e", "n">> -> caseOpen(rest, id)
          [] n = <<"/", "a", "b", "o", "u", "t">> -> caseAbout(id)
          [] n = <<"/", "c", "o", "n", "t", "a", "c", "t">> -> caseContact(id)
          [] n = <<"c", "o", "p", "y">> -> caseCopy(arg, id, clip)
          [] n = <<"/", "r", "e", "s", "u", "m", "e">> -> caseResume(id)
          [] n = <<"/", "t", "h", "e", "m", "e">> -> caseTheme(rest, id)
          [] n \in {<<"/", "c", "l", "e", "a", "r">>,
                    <<"c", "l", "s">>} -> caseClear
          [] OTHER -> caseDefault(name, arg, id)

\* handleCommand past its guard: the three setter calls of the prefix, then
\* the case of the command.
runCommand(cmd, id, clip) ==
    LET toks == split(cmd)
        name == Head(toks)
        rest == Tail(toks)
        arg  == join(rest)
        body == dispatch(name, rest, arg, id, clip)
    IN  [body EXCEPT !.calls = <<setHistoryAppend(cmd), setHistoryIdx(-1),
                                 setInput(<<>>)>> \o @]

\* Mutant of handleCommand: the guard on the empty command is missing.
handleCommandNoGuard(raw, id, clip) == runCommand(trim(raw), id, clip)

\* Mutant of handleCommand: the output is printed before the line is recorded.
handleCommandPrintFirst(raw, id, clip) ==
    LET cmd == trim(raw)
    IN  IF cmd = <<>> THEN Outcome(<<>>)
        ELSE LET r == runCommand(cmd, id, clip)
             IN  [r EXCEPT !.calls = SubSeq(@, 4, Len(@)) \o SubSeq(@, 1, 3)]

\* Mutant of handleCommand: the line is recorded as typed, untrimmed.
handleCommandRecordsRaw(raw, id, clip) ==
    LET cmd == trim(raw)
    IN  IF cmd = <<>> THEN Outcome(<<>>)
        ELSE LET r == runCommand(cmd, id, clip)
             IN  [r EXCEPT !.calls = <<setHistoryAppend(raw)>> \o Tail(@)]

\* handleCommand(raw) up to its first suspension: nothing at all for a line
\* that trims to the empty string.
handleCommand(raw, id, clip) ==
    LET cmd == trim(raw)
    IN  IF cmd = <<>> THEN Outcome(<<>>) ELSE runCommand(cmd, id, clip)

---------------------------------------------------------------------------
(* The page.                                                               *)

\* The effect of useLocalStorage, run after a render in which the value has
\* changed, stores the JSON text of the value under its key.

\* The history state is a string, not an array, when the item under "history"
\* holds a JSON string or a text that JSON.parse rejects.
historyIsString(item) ==
    item.has /\ (~JSONparse(item.raw).ok \/ JSONparse(item.raw).kind = "string")

\* What the handlers read of the history state loaded from item.  Of a
\* string they read what they read of an array: .length is the number of its
\* characters, [idx] the character at idx, and [...h, cmd] spreads the
\* characters, each a string of its own.
historyEntries(item) ==
    LET h == useLocalStorage(item, <<>>)
    IN  IF historyIsString(item) THEN [i \in 1..Len(h) |-> <<h[i]>>] ELSE h

\* JSON.stringify of the history state loaded from item, the text the effect
\* of useLocalStorage stores after the first render.
historyText(item) ==
    LET h == useLocalStorage(item, <<>>)
    IN  IF historyIsString(item) THEN stringifyString(h) ELSE stringifyArray(h)

\* A fresh load of the page over the stored items: the state initializers of
\* Home, then the effects of the first render.
Load(themeItem, historyItem) ==
    /\ theme = useLocalStorage(themeItem, dark)
    /\ history = historyEntries(historyItem)
    /\ historyIdx = -1
    /\ input = <<>>
    /\ output = <<>>
    /\ pending = {}

\* Stored items a session may start from: nothing stored, what the effect of
\* useLocalStorage wrote, and a theme name stored as plain text by an earlier
\* version (the legacy values the catch of useLocalStorage is there for).
InitOver(themeItems, historyItems, apis) ==
    /\ \E ti \in themeItems, hi \in historyItems :
           /\ Load(ti, hi)
           /\ localStorage = [theme |-> stringifyString(theme),
                              history |-> historyText(hi)]
    /\ clipboardApi \in apis
    /\ opened = <<>>
    /\ clipboard = <<>>

\* A reload of the page: the state is rebuilt from localStorage, and the
\* handlers of the old page, a pending clipboard continuation included, are gone.
Reload ==
    /\ theme' = useLocalStorage(Stored(localStorage.theme), dark)
    /\ history' = historyEntries(Stored(localStorage.history))
    /\ historyIdx' = -1
    /\ input' = <<>>
    /\ output' = <<>>
    /\ pending' = {}
    /\ localStorage' = [theme |-> stringifyString(theme'),
                        history |-> historyText(Stored(localStorage.history))]
    /\ UNCHANGED <<opened, clipboard, clipboardApi>>

\* The effect that applies the theme reads Object.entries(THEMES[theme]):
\* with a theme that THEMES has no property for it throws during the first
\* render, React unmounts the page, and no handler of it runs any more.
Mounted == inTHEMES(theme)

\* onChange of the input box: setInput(e.target.value).
onChange(lines) ==
    /\ Mounted
    /\ \E v \in lines : input' = v
    /\ UNCHANGED <<theme, history, historyIdx, output, localStorage, pending,
                   opened, clipboard, clipboardApi>>

toggleTheme ==
    /\ Mounted
    /\ theme' = IF theme = light THEN dark ELSE light
    /\ localStorage' = [localStorage EXCEPT !.theme = stringifyString(theme')]
    /\ UNCHANGED <<history, historyIdx, input, output, pending, opened, clipboard,
                   clipboardApi>>

\* onKeyDown, e.key === "Enter": handleCommand(input) runs to its end or to
\* its await, and React applies the queued setter calls.
onKeyDownEnter(maxHistory) ==
        LET id == Len(history) + 1
            r  == handleCommand(input, id, clipboardApi)
            st == applyCalls([theme |-> theme, history |-> history,
                              historyIdx |-> historyIdx, input |-> input,
                              output |-> output], r.calls)
        IN  /\ Mounted
            /\ trim(input) # <<>> => Len(history) < maxHistory
            /\ r.awaits => Cardinality(pending) < MaxPending
            /\ theme' = st.theme
            /\ history' = st.history
            /\ historyIdx' = st.historyIdx
            /\ input' = st.input
            /\ output' = st.output
            /\ pending' = IF r.awaits THEN pending \cup {id} ELSE pending
            /\ opened' = opened \o r.opens
            /\ clipboard' = clipboard \o r.writes
            /\ localStorage' =
                   [theme |-> IF theme' # theme THEN stringifyString(theme')
                              ELSE localStorage.theme,
                    history |-> IF history' # history THEN stringifyArray(history')
                                ELSE localStorage.history]
            /\ UNCHANGED clipboardApi

\* history[idx] || "": an index outside the array reads undefined.
entryAt(h, idx) == IF idx + 1 \in DOMAIN h THEN h[idx + 1] ELSE <<>>

\* Mutant of onKeyDownArrowUp: the floor Math.max(0, ...) is missing.
onKeyDownArrowUpNoFloor ==
    /\ Mounted
    /\ IF Len(history) = 0
       THEN UNCHANGED <<historyIdx, input>>
       ELSE LET idx == IF historyIdx = -1 THEN Len(history) - 1 ELSE historyIdx - 1
            IN  /\ historyIdx' = idx
                /\ input' = entryAt(history, idx)
    /\ UNCHANGED <<theme, history, output, localStorage, pending, opened, clipboard,
                   clipboardApi>>

\* onKeyDown, e.key === "ArrowUp"
onKeyDownArrowUp ==
    /\ Mounted
    /\ IF Len(history) = 0
       THEN UNCHANGED <<historyIdx, input>>
       ELSE LET idx == IF historyIdx = -1 THEN Len(history) - 1
                       ELSE Max(0, historyIdx - 1)
            IN  /\ historyIdx' = idx
                /\ input' = entryAt(history, idx)
    /\ UNCHANGED <<theme, history, output, localStorage, pending, opened, clipboard,
                   clipboardApi>>

\* Mutant of onKeyDownArrowDown: the cap Math.min(history.length - 1, ...) is
\* missing.
onKeyDownArrowDownNoCap ==
    /\ Mounted
    /\ IF Len(history) = 0
       THEN UNCHANGED <<historyIdx, input>>
       ELSE LET idx == IF historyIdx = -1 THEN -1 ELSE historyIdx + 1
            IN  /\ historyIdx' = idx
                /\ input' = IF idx = -1 THEN <<>> ELSE entryAt(history, idx)
    /\ UNCHANGED <<theme, history, output, localStorage, pending, opened, clipboard,
                   clipboardApi>>

\* onKeyDown, e.key === "ArrowDown"
onKeyDownArrowDown ==
    /\ Mounted
    /\ IF Len(history) = 0
       THEN UNCHANGED <<historyIdx, input>>
       ELSE LET idx == IF historyIdx = -1 THEN -1
                       ELSE Min(Len(history) - 1, historyIdx + 1)
            IN  /\ historyIdx' = idx
                /\ input' = IF idx = -1 THEN <<>> ELSE entryAt(history, idx)
    /\ UNCHANGED <<theme, history, output, localStorage, pending, opened, clipboard,
                   clipboardApi>>

\* Mutant of clipboardResolve: the continuation writes the scrollback it saw
\* when the command was submitted, here the empty one, plus its block, in
\* place of a functional update.
clipboardResolveStaleOutput ==
    \E id \in pending :
        /\ Mounted
        /\ output' = <<print(<<CopiedLine>>, id).block>>
        /\ pending' = pending \ {id}
        /\ UNCHANGED <<theme, history, historyIdx, input, localStorage, opened,
                       clipboard, clipboardApi>>

\* The promise of navigator.clipboard.writeText resolves: the handler that
\* awaits it resumes and prints the confirmation.
clipboardResolve ==
    \E id \in pending :
        /\ Mounted
        /\ output' = Append(output, print(<<CopiedLine>>, id).block)
        /\ pending' = pending \ {id}
        /\ UNCHANGED <<theme, history, historyIdx, input, localStorage, opened,
                       clipboard, clipboardApi>>

\* The promise rejects: the catch of the handler prints the failure line.
clipboardReject ==
    \E id \in pending :
        /\ Mounted
        /\ output' = Append(output, print(<<CopyFailedLine>>, id).block)
        /\ pending' = pending \ {id}
        /\ UNCHANGED <<theme, history, historyIdx, input, localStorage, opened,
                       clipboard, clipboardApi>>

\* One event of a session in which the user types lines of `lines`.
Step(lines, maxHistory) ==
    \/ onChange(lines)
    \/ onKeyDownEnter(maxHistory)
    \/ onKeyDownArrowUp
    \/ onKeyDownArrowDown
    \/ clipboardResolve
    \/ clipboardReject
    \/ toggleTheme
    \/ Reload

\* Sessions of history navigation.
HistoryLines == {<<"a">>,
                 <<"b">>,
                 <<"c">>,
                 <<"c", "o", "p", "y", " ", "e", "m", "a", "i", "l">>}

Init == InitOver({Absent}, {Absent}, {"promise"})
Next == Step(HistoryLines, MaxHistory)
Spec == Init /\ [][Next]_vars

\* Sessions over the commands: an unknown command, a usage error, the clear
\* commands, a theme change, the clipboard command and blank lines.
CommandLines ==
    {<<"z", "z", " ", "<", "b", ">">>,
     <<"o", "p", "e", "n">>,
     <<"/", "c", "l", "e", "a", "r">>,
     <<"C", "L", "S">>,
     <<"/", "t", "h", "e", "m", "e", " ", "l", "i", "g", "h", "t">>,
     <<"c", "o", "p", "y", " ", "e", "m", "a", "i", "l">>,
     <<"c", "o", "p", "y">>, <<>>, <<" ", "\t", " ">>}

InitCommands == InitOver({Absent}, {Absent}, {"promise"})
NextCommands == Step(CommandLines, MaxCommands)
SpecCommands == InitCommands /\ [][NextCommands]_vars

\* Sessions of the open command.
OpenLines ==
    {<<"o", "p", "e", "n">>,
     <<"o", "p", "e", "n", " ", "0">>,
     <<"o", "p", "e", "n", " ", "-", "1">>,
     <<"o", "p", "e", "n", " ", "a", "b", "c">>,
     <<"o", "p", "e", "n", " ", "1">>,
     <<"O", "P", "E", "N", " ", "4">>,
     <<"o", "p", "e", "n", " ", "5">>,
     <<"c", "o", "p", "y", " ", "e", "m", "a", "i", "l">>}

InitOpen == InitOver({Absent}, {Absent}, {"promise"})
NextOpen == Step(OpenLines, MaxCommands)
SpecOpen == InitOpen /\ [][NextOpen]_vars

\* Sessions of the theme command with a supported theme.
ThemeLines ==
    {<<"/", "t", "h", "e", "m", "e", " ", "l", "i", "g", "h", "t">>,
     <<"/", "t", "h", "e", "m", "e", " ", "D", "A", "R", "K">>,
     <<"/", "T", "h", "e", "m", "e", " ", "M", "a", "t", "r", "i", "x">>,
     <<"/", "t", "h", "e", "m", "e", " ", "s", "o", "l", "a", "r", "i", "z", "e",
       "d", " ", "x">>,
     <<"c", "o", "p", "y", " ", "e", "m", "a", "i", "l">>}

InitTheme ==
    InitOver({Absent, Stored(stringifyString(solarized)), Stored(matrix)}, {Absent},
             {"promise"})
NextTheme == Step(ThemeLines, MaxCommands)
SpecTheme == InitTheme /\ [][NextTheme]_vars

\* Sessions of the theme command with no argument or another argument.
ThemeArgLines ==
    {<<"/", "t", "h", "e", "m", "e">>,
     <<"/", "t", "h", "e", "m", "e", " ", "b", "l", "u", "e">>,
     <<"/", "t", "h", "e", "m", "e", " ", "c", "o", "n", "s", "t", "r", "u", "c",
       "t", "o", "r">>,
     <<"/", "t", "h", "e", "m", "e", " ", "m", "a", "t", "r", "i", "x">>,
     <<"c", "o", "p", "y", " ", "e", "m", "a", "i", "l">>}

InitThemeArg == InitOver({Absent}, {Absent}, {"promise"})
NextThemeArg == Step(ThemeArgLines, MaxCommands)
SpecThemeArg == InitThemeArg /\ [][NextThemeArg]_vars

\* Sessions of the copy command.
CopyLines ==
    {<<"c", "o", "p", "y", " ", "e", "m", "a", "i", "l">>,
     <<"C", "O", "P", "Y", " ", " ", "E", "m", "a", "i", "l">>,
     <<"c", "o", "p", "y">>,
     <<"c", "o", "p", "y", " ", "m", "a", "i", "l">>,
     <<"c", "o", "p", "y", " ", "e", "m", "a", "i", "l", " ", "x">>}

InitCopy == InitOver({Absent}, {Absent}, {"promise", "absent"})
NextCopy == Step(CopyLines, MaxCommands)
SpecCopy == InitCopy /\ [][NextCopy]_vars


---------------------------------------------------------------------------
\* Sessions of the search command.
SearchLines ==
    {<<"s", "e", "a", "r", "c", "h", " ", "n", "e", "x", "t", ".", "j", "s">>,
     <<"S", "E", "A", "R", "C", "H", " ", "N", "e", "x", "t", ".", "J", "S">>,
     <<"s", "e", "a", "r", "c", "h", " ", "z", "e", "n", " ", " ", "t", "o", "o",
       "l">>,
     <<"s", "e", "a", "r", "c", "h", " ", "Z", "E", "N", " ", "M", "a", "p">>,
     <<"s", "e", "a", "r", "c", "h", " ", "<", "b", ">">>,
     <<"c", "o", "p", "y", " ", "e", "m", "a", "i", "l">>}

InitSearch == InitOver({Absent}, {Absent}, {"promise"})
NextSearch == Step(SearchLines, MaxCommands)
SpecSearch == InitSearch /\ [][NextSearch]_vars

\* Sessions of the projects command.
ProjectsLines ==
    {<<"/", "p", "r", "o", "j", "e", "c", "t", "s">>,
     <<"/", "p", "r", "o", "j", "e", "c", "t", "s", " ", "1">>,
     <<"/", "P", "R", "O", "J", "E", "C", "T", "S", " ", "2">>,
     <<"/", "p", "r", "o", "j", "e", "c", "t", "s", " ", "0">>,
     <<"/", "p", "r", "o", "j", "e", "c", "t", "s", " ", "-", "3">>,
     <<"/", "p", "r", "o", "j", "e", "c", "t", "s", " ", "a", "b", "c">>,
     <<"c", "o", "p", "y", " ", "e", "m", "a", "i", "l">>}

InitProjects == InitOver({Absent}, {Absent}, {"promise"})
NextProjects == Step(ProjectsLines, MaxCommands)
SpecProjects == InitProjects /\ [][NextProjects]_vars

\* Sessions of the help command.
HelpLines ==
    {<<"/", "h", "e", "l", "p">>,
     <<"/", "h", "e", "l", "p", " ", "/", "t", "h", "e", "m", "e">>,
     <<"/", "H", "E", "L", "P", " ", "/", "p", "r", "o", "j", "e", "c", "t", "s">>,
     <<"/", "h", "e", "l", "p", " ", "o", "p", "e", "n">>,
     <<"/", "h", "e", "l", "p", " ", "c", "l", "s">>,
     <<"/", "h", "e", "l", "p", " ", "f", "o", "o">>,
     <<"/", "h", "e", "l", "p", " ", "c", "o", "n", "s", "t", "r", "u", "c", "t",
       "o", "r">>,
     <<"c", "o", "p", "y", " ", "e", "m", "a", "i", "l">>}

InitHelp == InitOver({Absent}, {Absent}, {"promise"})
NextHelp == Step(HelpLines, MaxCommands)
SpecHelp == InitHelp /\ [][NextHelp]_vars

\* Sessions in which the typed text holds markup characters, next to the
\* commands that print the texts of CONFIG.
EscapeLines ==
    {<<"<", "s", "c", "r", "i", "p", "t", ">">>,
     <<"/", "h", "e", "l", "p", " ", "<", "b", ">", "&", "\"", "'">>,
     <<"s", "e", "a", "r", "c", "h", " ", "A", "&", "b", " ", "'", "c", "'">>,
     <<"/", "a", "b", "o", "u", "t">>,
     <<"/", "p", "r", "o", "j", "e", "c", "t", "s">>,
     <<"c", "o", "p", "y", " ", "e", "m", "a", "i", "l">>}

InitEscape == InitOver({Absent}, {Absent}, {"promise"})
NextEscape == Step(EscapeLines, MaxCommands)
SpecEscape == InitEscape /\ [][NextEscape]_vars

\* Sessions over commands of every kind: an unknown command, commands that
\* print, open or wait, the clear command, and /help with the name of an
\* inherited property.
BlockLines ==
    {<<"z", "z", " ", "t", "o", "p">>,
     <<"o", "p", "e", "n", " ", "9">>,
     <<"/", "r", "e", "s", "u", "m", "e">>,
     <<"/", "h", "e", "l", "p", " ", "c", "o", "n", "s", "t", "r", "u", "c", "t",
       "o", "r">>,
     <<"/", "c", "l", "e", "a", "r">>,
     <<"c", "o", "p", "y", " ", "e", "m", "a", "i", "l">>}

InitBlocks == InitOver({Absent}, {Absent}, {"promise"})
NextBlocks == Step(BlockLines, MaxCommands)
SpecBlocks == InitBlocks /\ [][NextBlocks]_vars

\* Sessions in which the typed lines have blanks around and inside them.
PaddedLines ==
    {<<" ", " ", "a", "\t">>,
     <<" ", "b", " ", " ", "c">>,
     <<"o", "p", "e", "n", " ", " ", "1", " ">>,
     <<"d">>,
     <<"c", "o", "p", "y", " ", "e", "m", "a", "i", "l">>}

InitPadded == InitOver({Absent}, {Absent}, {"promise"})
NextPadded == Step(PaddedLines, MaxCommands)
SpecPadded == InitPadded /\ [][NextPadded]_vars

\* Sessions that start from stored items of every kind: nothing stored, the
\* JSON text the application writes, a legacy plain theme name, and texts that
\* JSON.parse rejects.
LoadThemeItems ==
    {Absent, Stored(stringifyString(solarized)), Stored(matrix),
     Stored(<<"b", "l", "u", "e">>)}

LoadHistoryItems ==
    {Absent, Stored(stringifyArray(<<<<"a">>>>)),
     Stored(<<"o", "o", "p", "s">>)}

LoadLines == {<<"b">>,
              <<"c", "o", "p", "y", " ", "e", "m", "a", "i", "l">>}

InitLoad == InitOver(LoadThemeItems, LoadHistoryItems, {"promise"})
NextLoad == Step(LoadLines, MaxCommands)
SpecLoad == InitLoad /\ [][NextLoad]_vars

(* Properties.                                                             *)

\* The positions, in the queue q of setter calls, of the calls of setter s.
CallPositions(q, s) == {i \in 1..Len(q) : q[i].set = s}

\* The last block of a scrollback that is not empty.
LastBlock(o) == o[Len(o)]

\* The line consists of whitespace only (the empty line included).
Blank(s) == \A i \in 1..Len(s) : s[i] \in Whitespace

\* C1: a submitted line that is not blank appends exactly one entry to the
\* history and resets the cursor to -1, and both setter calls precede every
\* call that changes the scrollback; a block is in the scrollback only when
\* the entry of its command is in the history.  SpecCommands submits an
\* unknown command, a usage error, the clear commands and the clipboard command.
C1_HistoryBeforeOutput ==
    /\ [](\A b \in 1..Len(output) : output[b].id \in 1..Len(history))
    /\ [][(onKeyDownEnter(MaxCommands) /\ ~Blank(input)) =>
            LET q == handleCommand(input, Len(history) + 1, clipboardApi).calls
            IN  /\ Len(history') = Len(history) + 1
                /\ SubSeq(history', 1, Len(history)) = history
                /\ historyIdx' = -1
                /\ Cardinality(CallPositions(q, "setHistory")) = 1
                /\ \A i \in CallPositions(q, "setOutputAppend")
                              \cup CallPositions(q, "setOutputEmpty") :
                       /\ \E j \in CallPositions(q, "setHistory") : j < i
                       /\ \E k \in CallPositions(q, "setHistoryIdx") :
                              k < i /\ q[k].num = -1]_vars

\* C1 witness: the unknown command was submitted while the cursor was on a
\* history entry; its entry is the last of the history, its block the last of
\* the scrollback, and the cursor is back at -1.
C1_Witness ==
    /\ Len(history) = 2
    /\ history[2] = <<"z", "z", " ", "<", "b", ">">>
    /\ output # <<>>
    /\ LastBlock(output).id = 2
    /\ historyIdx = -1

\* C2: the history cursor is -1 or an index of the history.
C2_CursorValid == historyIdx = -1 \/ historyIdx \in 0..(Len(history) - 1)

\* C2 witness: the cursor has been moved up to the oldest of three entries.
C2_Witness == Len(history) = 3 /\ historyIdx = 0 /\ input = history[1]

\* C3: ArrowUp with an empty history changes nothing; otherwise it moves the
\* cursor from -1 to the last index, or from i to max(0, i - 1), and shows the
\* entry at the new cursor.  After "a", "b", "c": ArrowUp shows "c", ArrowUp
\* again shows "b", ArrowDown then shows "c".
C3_ArrowUp ==
    /\ [][onKeyDownArrowUp =>
            IF history = <<>> THEN UNCHANGED vars
            ELSE /\ historyIdx' = IF historyIdx = -1 THEN Len(history) - 1
                                  ELSE IF historyIdx = 0 THEN 0
                                  ELSE historyIdx - 1
                 /\ input' = history[historyIdx' + 1]]_vars
    /\ [][history = <<<<"a">>,
                      <<"b">>,
                      <<"c">>>> =>
            /\ (onKeyDownArrowUp /\ historyIdx = -1) => input' = <<"c">>
            /\ (onKeyDownArrowUp /\ input = <<"c">> /\ historyIdx = 2) => input' = <<"b">>
            /\ (onKeyDownArrowDown /\ input = <<"b">> /\ historyIdx = 1)
                   => input' = <<"c">>]_vars

\* C3 witness: after "a", "b", "c" the second ArrowUp shows "b".
C3_Witness ==
    history = <<<<"a">>, <<"b">>, <<"c">>>> /\ historyIdx = 1 /\ input = <<"b">>

\* C4, as claimed: ArrowDown with the cursor on the newest entry returns the
\* cursor to -1 and clears the input.
C4_DownPastNewest ==
    [][(onKeyDownArrowDown /\ history # <<>> /\ historyIdx = Len(history) - 1) =>
          (historyIdx' = -1 /\ input' = <<>>)]_vars

\* C5: submitting a blank line changes nothing: no block, no history entry,
\* the cursor, the theme and everything else as before.
C5_BlankIsNoOp ==
    [][(onKeyDownEnter(MaxCommands) /\ Blank(input)) => UNCHANGED vars]_vars

\* C5 witness: a line of blanks is in the input box of a session that has
\* recorded a command and printed its block; Enter leaves the line there.
C5_Witness ==
    /\ input = <<" ", "\t", " ">>
    /\ history # <<>>
    /\ output # <<>>
    /\ historyIdx = 0


\* The block that the command submitted now prints, with the one line given.
OneLineBlock(line) == [id |-> Len(history) + 1, lines |-> <<line>>]

OpenUsage == <<"Usage: open <n> \\u2014 open the nth project demo.">>

\* C6, as claimed: open with a missing argument, 0, a negative integer or an
\* argument that is no number prints the usage line and opens no URL.
C6_OpenBadArgUsage ==
    [][(onKeyDownEnter(MaxCommands)
          /\ input \in {<<"o", "p", "e", "n">>,
                        <<"o", "p", "e", "n", " ", "0">>,
                        <<"o", "p", "e", "n", " ", "-", "1">>,
                        <<"o", "p", "e", "n", " ", "a", "b", "c">>}) =>
          /\ output' = Append(output, OneLineBlock(OpenUsage))
          /\ opened' = opened]_vars

\* C6, amended: open with a missing argument, 0 or an argument that is no
\* number prints the usage line; open -1 prints "Project -1 not found."; none
\* of them opens a URL.
C6_OpenBadArg ==
    /\ [][(onKeyDownEnter(MaxCommands)
             /\ input \in {<<"o", "p", "e", "n">>,
                           <<"o", "p", "e", "n", " ", "0">>,
                           <<"o", "p", "e", "n", " ", "a", "b", "c">>}) =>
             /\ output' = Append(output, OneLineBlock(OpenUsage))
             /\ opened' = opened]_vars
    /\ [][(onKeyDownEnter(MaxCommands) /\ input = <<"o", "p", "e", "n", " ", "-",
                                                    "1">>) =>
             /\ output' = Append(output,
                    OneLineBlock(<<"Project ", "-", "1", " not found.">>))
             /\ opened' = opened]_vars

\* C6 witness: open -1 was submitted: its block says that project -1 was not
\* found, and no URL has been opened.
C6_Witness ==
    /\ history = <<<<"o", "p", "e", "n", " ", "-", "1">>>>
    /\ output = <<[id |-> 1, lines |-> <<<<"Project ", "-", "1", " not found.">>>>]>>
    /\ opened = <<>>

\* The open commands of SpecOpen whose argument starts with an integer, and
\* that integer.
OpenCases ==
    {[line |-> <<"o", "p", "e", "n", " ", "0">>, n |-> 0], [line |-> <<"o", "p", "e", "n", " ", "-", "1">>, n |-> -1],
     [line |-> <<"o", "p", "e", "n", " ", "1">>, n |-> 1], [line |-> <<"O", "P", "E", "N", " ", "4">>, n |-> 4],
     [line |-> <<"o", "p", "e", "n", " ", "5">>, n |-> 5]}

\* C7: open n opens a URL exactly when 1 <= n <= number of projects: then it
\* makes one call, with the demoUrl of the n-th project, and prints
\* "Opening <title>..."; for n above the number of projects it prints
\* "Project n not found." and opens nothing.  No other step opens a URL.
C7_OpenNth ==
    /\ [][\A c \in OpenCases :
            (input = c.line /\ onKeyDownEnter(MaxCommands)) =>
                IF c.n >= 1 /\ c.n <= Len(projects)
                THEN /\ opened' = Append(opened, projects[c.n].demoUrl)
                     /\ output' = Append(output, OneLineBlock(
                            <<"Opening ">> \o projects[c.n].title \o <<"...">>))
                ELSE /\ opened' = opened
                     /\ c.n > Len(projects) =>
                            output' = Append(output, OneLineBlock(
                                <<"Project ">> \o numberToString(c.n)
                                    \o <<" not found.">>))]_vars
    /\ [][opened' # opened =>
            \E c \in OpenCases : input = c.line /\ c.n \in 1..Len(projects)]_vars

\* C7 witness: OPEN 4 was submitted: one call, with the demoUrl of the fourth
\* project, and the block that names its title.
C7_Witness ==
    /\ history = <<<<"O", "P", "E", "N", " ", "4">>>>
    /\ opened = <<<<"#">>>>
    /\ output = <<[id |-> 1, lines |-> <<<<"Opening ">> \o <<"e", "c", "h", "o", "m", "e", "e", "t", "s">> \o <<"...">>>>]>>

\* The theme commands of SpecTheme that name a supported theme, and the theme.
ThemeCases ==
    {[line |-> <<"/", "t", "h", "e", "m", "e", " ", "l", "i", "g", "h", "t">>, t |-> <<"l", "i", "g", "h", "t">>],
     [line |-> <<"/", "t", "h", "e", "m", "e", " ", "D", "A", "R", "K">>, t |-> <<"d", "a", "r", "k">>],
     [line |-> <<"/", "T", "h", "e", "m", "e", " ", "M", "a", "t", "r", "i", "x">>, t |-> <<"m", "a", "t", "r", "i", "x">>],
     [line |-> <<"/", "t", "h", "e", "m", "e", " ", "s", "o", "l", "a", "r", "i",
                 "z", "e", "d", " ", "x">>, t |-> <<"s", "o", "l", "a", "r", "i", "z", "e", "d">>]}

\* C8: /theme T, T a supported theme in any letter case, sets the theme to T
\* and stores the JSON text of T under "theme"; a fresh load starts with the
\* theme the session had, so with T when it follows the command.
C8_ThemePersisted ==
    /\ [][\A c \in ThemeCases :
            (input = c.line /\ onKeyDownEnter(MaxCommands)) =>
                /\ theme' = c.t
                /\ localStorage'.theme = <<"\"">> \o c.t \o <<"\"">>]_vars
    /\ [][Reload => theme' = theme]_vars

\* C8 witness: /Theme Matrix was submitted in a session that started dark.
C8_Witness ==
    /\ history = <<<<"/", "T", "h", "e", "m", "e", " ", "M", "a", "t", "r", "i",
                     "x">>>>
    /\ theme = <<"m", "a", "t", "r", "i", "x">>
    /\ localStorage.theme = <<"\"", "m", "a", "t", "r", "i", "x", "\"">>
    /\ output = <<[id |-> 1, lines |-> <<<<"Theme set to ">> \o <<"m", "a", "t", "r", "i", "x">> \o <<".">>>>]>>

\* C9, as claimed: /theme with no argument or with an argument that is none of
\* the four names prints the usage line and leaves the theme and its stored
\* value as they were; the theme is one of the four names in every state.
C9_ThemeBadArgUsage ==
    /\ [](theme \in {<<"l", "i", "g", "h", "t">>,
                     <<"d", "a", "r", "k">>,
                     <<"m", "a", "t", "r", "i", "x">>,
                     <<"s", "o", "l", "a", "r", "i", "z", "e", "d">>})
    /\ [][(onKeyDownEnter(MaxCommands)
             /\ input \in {<<"/", "t", "h", "e", "m", "e">>,
                           <<"/", "t", "h", "e", "m", "e", " ", "b", "l", "u", "e">>,
                           <<"/", "t", "h", "e", "m", "e", " ", "c", "o", "n", "s",
                             "t", "r", "u", "c", "t", "o", "r">>}) =>
             /\ theme' = theme
             /\ localStorage'.theme = localStorage.theme
             /\ output' = Append(output, OneLineBlock(
                    <<"Usage: /theme <light|dark|matrix|solarized>">>))]_vars

CopyEmailLines == {<<"c", "o", "p", "y", " ", "e", "m", "a", "i", "l">>,
                   <<"C", "O", "P", "Y", " ", " ", "E", "m", "a", "i", "l">>}
CopyOtherLines == {<<"c", "o", "p", "y">>,
                   <<"c", "o", "p", "y", " ", "m", "a", "i", "l">>,
                   <<"c", "o", "p", "y", " ", "e", "m", "a", "i", "l", " ", "x">>}

\* C10: copy email prints no line before the clipboard write settles and one
\* line when it does: the confirmation when the promise resolves, the failure
\* line when it rejects (or when the call itself throws); the handler never
\* ends by throwing.  copy with another argument prints the usage line and
\* calls no clipboard.
C10_CopyEmail ==
    /\ [](\A b \in 1..Len(output) : output[b].id \notin pending)
    /\ [](\A b1, b2 \in 1..Len(output) :
              output[b1].id = output[b2].id => b1 = b2)
    /\ [][(onKeyDownEnter(MaxCommands) /\ input \in CopyEmailLines) =>
            /\ ~handleCommand(input, Len(history) + 1, clipboardApi).throws
            /\ IF clipboardApi = "promise"
               THEN /\ clipboard' = Append(clipboard, <<"h", "e", "l", "l", "o",
                                                        "@", "e", "x", "a", "m",
                                                        "p", "l", "e", ".", "c",
                                                        "o", "m">>)
                    /\ pending' = pending \cup {Len(history) + 1}
                    /\ output' = output
               ELSE /\ clipboard' = clipboard
                    /\ pending' = pending
                    /\ output' = Append(output, OneLineBlock(
                           <<"Copy failed \\u2014 your browser blocked clipboard access.">>))]_vars
    /\ [][(onKeyDownEnter(MaxCommands) /\ input \in CopyOtherLines) =>
            /\ clipboard' = clipboard
            /\ pending' = pending
            /\ output' = Append(output, OneLineBlock(<<"Usage: copy email">>))]_vars
    /\ [][clipboardResolve =>
            \E id \in pending :
                /\ pending' = pending \ {id}
                /\ output' = Append(output,
                       [id |-> id, lines |-> <<<<"Email copied to clipboard.">>>>])]_vars
    /\ [][clipboardReject =>
            \E id \in pending :
                /\ pending' = pending \ {id}
                /\ output' = Append(output,
                       [id |-> id, lines |->
                          <<<<"Copy failed \\u2014 your browser blocked clipboard access.">>>>])]_vars

\* C10 witness: COPY  Email was submitted, the clipboard was called, and the
\* promise rejected: the scrollback holds the one failure line.
C10_Witness ==
    /\ history = <<<<"C", "O", "P", "Y", " ", " ", "E", "m", "a", "i", "l">>>>
    /\ clipboard = <<<<"h", "e", "l", "l", "o", "@", "e", "x", "a", "m", "p", "l",
                       "e", ".", "c", "o", "m">>>>
    /\ pending = {}
    /\ output = <<[id |-> 1, lines |->
          <<<<"Copy failed \\u2014 your browser blocked clipboard access.">>>>]>>


ClearLines == {<<"/", "c", "l", "e", "a", "r">>,
               <<"C", "L", "S">>}

\* C11: /clear and cls leave the scrollback empty and keep the history: the
\* entries recorded before are all there, in the same order, followed by the
\* entry of the clear command itself; ArrowUp afterwards walks back through
\* them, one entry per key press, down to the oldest.
C11_ClearKeepsHistory ==
    /\ [][(onKeyDownEnter(MaxCommands) /\ input \in ClearLines) =>
            /\ output' = <<>>
            /\ history' = Append(history, input)
            /\ theme' = theme
            /\ localStorage'.history = stringifyArray(Append(history, input))]_vars
    /\ [][(onKeyDownArrowUp /\ history # <<>>) =>
            /\ history' = history
            /\ historyIdx' = IF historyIdx = -1 THEN Len(history) - 1
                             ELSE IF historyIdx = 0 THEN 0 ELSE historyIdx - 1
            /\ input' = history[historyIdx' + 1]]_vars

\* C11 witness: /clear was submitted after an unknown command had printed its
\* block; the scrollback is empty and two ArrowUp presses have brought the
\* earlier command back into the input box.
C11_Witness ==
    /\ history = <<<<"z", "z", " ", "<", "b", ">">>,
                   <<"/", "c", "l", "e", "a", "r">>>>
    /\ output = <<>>
    /\ historyIdx = 0
    /\ input = <<"z", "z", " ", "<", "b", ">">>


\* Enter is pressed on the typed line `line`, which is not blank.  (The two
\* tests on the variables come first: they are decided without running the
\* handler.)
Submits(line) ==
    input = line /\ Len(history') = Len(history) + 1 /\ onKeyDownEnter(MaxCommands)

\* The search commands of SpecSearch: the line, its sub-terms in lower case,
\* the term as typed and as the code prints it (lowercased, escaped), and the
\* 1-based indices of the projects it lists.
SearchCases ==
    {[line |-> <<"s", "e", "a", "r", "c", "h", " ", "n", "e", "x", "t", ".", "j",
                 "s">>,
      words |-> {<<"n", "e", "x", "t", ".", "j", "s">>},
      typed |-> <<"n", "e", "x", "t", ".", "j", "s">>,
      shown |-> <<"n", "e", "x", "t", ".", "j", "s">>,
      hits |-> <<1, 3>>],
     [line |-> <<"S", "E", "A", "R", "C", "H", " ", "N", "e", "x", "t", ".", "J",
                 "S">>,
      words |-> {<<"n", "e", "x", "t", ".", "j", "s">>},
      typed |-> <<"N", "e", "x", "t", ".", "J", "S">>,
      shown |-> <<"n", "e", "x", "t", ".", "j", "s">>,
      hits |-> <<1, 3>>],
     [line |-> <<"s", "e", "a", "r", "c", "h", " ", "z", "e", "n", " ", " ", "t",
                 "o", "o", "l">>,
      words |-> {<<"z", "e", "n">>,
                 <<"t", "o", "o", "l">>},
      typed |-> <<"z", "e", "n", " ", "t", "o", "o", "l">>,
      shown |-> <<"z", "e", "n", " ", "t", "o", "o", "l">>,
      hits |-> <<1>>],
     [line |-> <<"s", "e", "a", "r", "c", "h", " ", "Z", "E", "N", " ", "M", "a",
                 "p">>,
      words |-> {<<"z", "e", "n">>,
                 <<"m", "a", "p">>},
      typed |-> <<"Z", "E", "N", " ", "M", "a", "p">>,
      shown |-> <<"z", "e", "n", " ", "m", "a", "p">>,
      hits |-> <<>>],
     [line |-> <<"s", "e", "a", "r", "c", "h", " ", "<", "b", ">">>,
      words |-> {<<"<", "b", ">">>},
      typed |-> <<"&", "l", "t", ";", "b", "&", "g", "t", ";">>,
      shown |-> <<"&", "l", "t", ";", "b", "&", "g", "t", ";">>,
      hits |-> <<>>]}

\* The sub-term q occurs in the title, the description or a tech entry of p,
\* letter case ignored.  (A sub-term holds no blank, and the three parts are
\* joined by blanks, so q cannot lie across two of them.)
Contains(p, q) ==
    \/ includes(toLowerCase(p.title), q)
    \/ includes(toLowerCase(p.description), q)
    \/ \E j \in 1..Len(p.tech) : includes(toLowerCase(p.tech[j]), q)

\* The indices of the projects that contain every sub-term, in CONFIG order.
Hits(words) ==
    SelectSeq([i \in 1..Len(projects) |-> i],
              LAMBDA i : \A q \in words : Contains(projects[i], q))

\* The block search prints for the case c, quoted being the text it puts
\* between the quotes of the zero-matches line.
SearchBlock(c, quoted) ==
    [id |-> Len(history) + 1,
     lines |-> IF c.hits = <<>>
               THEN <<<<"No matches for '">> \o quoted \o <<"'.">>>>
               ELSE <<<<"<span class='title'>", "Search results (">>
                        \o numberToString(Len(c.hits)) \o <<"):", "</span>">>>>
                    \o [k \in 1..Len(c.hits) |->
                          numberToString(c.hits[k]) \o <<". <span class='title'>">>
                            \o projects[c.hits[k]].title \o <<"</span> \\u2014 ">>
                            \o projects[c.hits[k]].description]]

\* C12, as claimed: search lists the projects that contain every sub-term,
\* whatever the letter case of the term, each with its 1-based index, and with
\* no match prints "No matches for '<term>'." with the term as it was typed.
C12_SearchAsTyped ==
    [][\A c \in SearchCases :
          Submits(c.line) =>
              /\ c.hits = Hits(c.words)
              /\ output' = Append(output, SearchBlock(c, c.typed))]_vars

\* C12, amended: search lists the projects that contain every sub-term,
\* whatever the letter case of the term, each with its 1-based index, and with
\* no match prints "No matches for '<t>'." where t is the term in lower case.
C12_Search ==
    [][\A c \in SearchCases :
          Submits(c.line) =>
              /\ c.hits = Hits(c.words)
              /\ output' = Append(output, SearchBlock(c, c.shown))]_vars

\* C12 witness: search ZEN Map was submitted: zensu holds "zen" and danger
\* ahead holds "map", no project holds both, and the line names the term in
\* lower case.
C12_Witness ==
    /\ history = <<<<"s", "e", "a", "r", "c", "h", " ", "Z", "E", "N", " ", "M",
                     "a", "p">>>>
    /\ output = <<[id |-> 1, lines |-> <<<<"No matches for '">>
                                           \o <<"z", "e", "n", " ", "m", "a", "p">> \o <<"'.">>>>]>>


\* The projects commands of SpecProjects and the page each one asks for.
ProjectsCases ==
    {[line |-> <<"/", "p", "r", "o", "j", "e", "c", "t", "s">>, page |-> 1],
     [line |-> <<"/", "p", "r", "o", "j", "e", "c", "t", "s", " ", "1">>, page |-> 1],
     [line |-> <<"/", "P", "R", "O", "J", "E", "C", "T", "S", " ", "2">>, page |-> 2],
     [line |-> <<"/", "p", "r", "o", "j", "e", "c", "t", "s", " ", "0">>, page |-> 1],
     [line |-> <<"/", "p", "r", "o", "j", "e", "c", "t", "s", " ", "-", "3">>, page |-> 1],
     [line |-> <<"/", "p", "r", "o", "j", "e", "c", "t", "s", " ", "a", "b", "c">>, page |-> 1]}

\* s starts with the characters of p.
StartsWith(s, p) == Len(s) >= Len(p) /\ SubSeq(s, 1, Len(p)) = p

\* The start of the line that lists the project of global index i.
ProjectLabel(i) ==
    numberToString(i) \o <<". <span class='title'>">> \o projects[i].title
        \o <<"</span> \\u2014 ">> \o projects[i].description

HelpCommandCases ==
    {[line |-> <<"/", "h", "e", "l", "p", " ", "/", "t", "h", "e", "m", "e">>,
      usage |-> <<"U", "s", "a", "g", "e", ":", " ", "/", "t", "h", "e", "m", "e",
                  " ">>],
     [line |-> <<"/", "H", "E", "L", "P", " ", "/", "p", "r", "o", "j", "e", "c",
                 "t", "s">>,
      usage |-> <<"U", "s", "a", "g", "e", ":", " ", "/", "p", "r", "o", "j", "e",
                  "c", "t", "s", " ">>],
     [line |-> <<"/", "h", "e", "l", "p", " ", "o", "p", "e", "n">>,
      usage |-> <<"U", "s", "a", "g", "e", ":", " ", "o", "p", "e", "n", " ">>],
     [line |-> <<"/", "h", "e", "l", "p", " ", "c", "l", "s">>,
      usage |-> <<"U", "s", "a", "g", "e", ":", " ", "/", "c", "l", "e", "a", "r",
                  " ">>]}

\* The help commands of SpecHelp whose argument names no command, and the
\* line claimed for them, as markup.
HelpOtherCases ==
    {[line |-> <<"/", "h", "e", "l", "p", " ", "f", "o", "o">>,
      html |-> <<"N", "o", " ", "d", "e", "t", "a", "i", "l", "s", " ", "f", "o",
                 "r", " ", "&", "#", "0", "3", "9", ";", "f", "o", "o", "&", "#",
                 "0", "3", "9", ";", ".">>],
     [line |-> <<"/", "h", "e", "l", "p", " ", "c", "o", "n", "s", "t", "r", "u",
                 "c", "t", "o", "r">>,
      html |-> <<"N", "o", " ", "d", "e", "t", "a", "i", "l", "s", " ", "f", "o",
                 "r", " ", "&", "#", "0", "3", "9", ";", "c", "o", "n", "s", "t",
                 "r", "u", "c", "t", "o", "r", "&", "#", "0", "3", "9", ";", ".">>]}

\* C14, as claimed: /help <arg> prints one line, the usage string of the
\* command when <arg> is a command of the command table, and
\* "No details for '<arg>'." for any other argument.
C14_HelpArg ==
    /\ [][\A c \in HelpCommandCases :
            (input = c.line /\ onKeyDownEnter(MaxCommands)) =>
                /\ Len(output') = Len(output) + 1
                /\ Len(LastBlock(output').lines) = 1
                /\ StartsWith(LastBlock(output').lines[1], c.usage)]_vars
    /\ [][\A c \in HelpOtherCases :
            (input = c.line /\ onKeyDownEnter(MaxCommands)) =>
                output' = Append(output, OneLineBlock(c.html))]_vars


\* The entities escapeHtml writes.
Entities == {<<"&", "a", "m", "p", ";">>,
             <<"&", "l", "t", ";">>,
             <<"&", "g", "t", ";">>,
             <<"&", "q", "u", "o", "t", ";">>,
             <<"&", "#", "0", "3", "9", ";">>}

\* No character of the line is a bare < > " or ', and every & starts an
\* entity.  The markup the code itself writes is kept in fragments, so the
\* one-character elements of a line are the characters of interpolated text.
Escaped(line) ==
    \A i \in 1..Len(line) :
        /\ line[i] \notin {"<", ">", "\"", "'"}
        /\ line[i] = "&" =>
               \E e \in Entities : SubSeq(line, i, i + Len(e) - 1) = e

\* The typed lines of SpecEscape that carry markup characters into a line of
\* output, and the text interpolated into that line, escaped.
EscapeCases ==
    {[line |-> <<"<", "s", "c", "r", "i", "p", "t", ">">>,
      html |-> <<"Command not found: ">>
               \o <<"&", "l", "t", ";", "s", "c", "r", "i", "p", "t", "&", "g", "t",
                    ";">> \o <<". Type /help.">>],
     [line |-> <<"/", "h", "e", "l", "p", " ", "<", "b", ">", "&", "\"", "'">>,
      html |-> <<"N", "o", " ", "d", "e", "t", "a", "i", "l", "s", " ", "f", "o",
                 "r", " ", "&", "#", "0", "3", "9", ";", "&", "l", "t", ";", "b",
                 "&", "g", "t", ";", "&", "a", "m", "p", ";", "&", "q", "u", "o",
                 "t", ";", "&", "#", "0", "3", "9", ";", "&", "#", "0", "3", "9",
                 ";", ".">>],
     [line |-> <<"s", "e", "a", "r", "c", "h", " ", "A", "&", "b", " ", "'", "c",
                 "'">>,
      html |-> <<"No matches for '">>
               \o <<"a", "&", "a", "m", "p", ";", "b", " ", "&", "#", "0", "3", "9",
                    ";", "c", "&", "#", "0", "3", "9", ";">> \o <<"'.">>]}

\* A project whose title, description and tech hold markup characters, with
\* URLs that hold none; and the same project with a demoUrl that holds some.
HostileProject ==
    [title |-> <<"<", "s", "c", "r", "i", "p", "t", ">">>,
     description |-> <<"a", "&", "b", " ", "\"", "c", "\"">>,
     tech |-> <<<<"<", "i", ">">>,
                <<"i", "t", "'", "s">>>>,
     demoUrl |-> <<"#">>,
     sourceUrl |-> <<"#">>]

HostileUrlProject == [HostileProject EXCEPT !.demoUrl = <<"'", ">", "<", "b", ">">>]

\* C15: every line of the scrollback is escaped: the characters & < > " ' of
\* typed text (an unknown command name, a /help argument, a search term) and
\* of the CONFIG texts appear in it as entities only; the line built for a
\* project (title, description, tech tags) and the one built for a title
\* escape their texts whatever these hold, and a demoUrl is written into the
\* line as it is.
C15_Escaped ==
    /\ [](\A b \in 1..Len(output) :
             \A l \in 1..Len(output[b].lines) : Escaped(output[b].lines[l]))
    /\ [][\A c \in EscapeCases :
            Submits(c.line) =>
                output' = Append(output, OneLineBlock(c.html))]_vars
    /\ [](/\ Escaped(projectLine(1, HostileProject))
          /\ Escaped(strong(HostileProject.title))
          /\ ~Escaped(projectLine(1, HostileUrlProject)))

\* C15 witness: <script> was submitted as a command: the line that names it
\* holds &lt;script&gt;.
C15_Witness ==
    /\ history = <<<<"<", "s", "c", "r", "i", "p", "t", ">">>>>
    /\ output = <<[id |-> 1, lines |-> <<<<"Command not found: ">>
                                           \o <<"&", "l", "t", ";", "s", "c", "r",
                                                "i", "p", "t", "&", "g", "t", ";">>
                                           \o <<". Type /help.">>>>]>>


\* The scrollback o2 is the scrollback o1 with one block more, of id id.
OneBlockMore(o1, o2, id) ==
    /\ Len(o2) = Len(o1) + 1
    /\ SubSeq(o2, 1, Len(o1)) = o1
    /\ LastBlock(o2).id = id

\* C16, as claimed: a submitted line that is not blank and not a clear command
\* gets exactly one block, appended at the end of the scrollback: at once, or,
\* for copy email, when the clipboard write settles; an unknown command gets
\* the line "Command not found: <name>. Type /help."; no line is left without
\* its block; and but for a clear command (and a reload of the page) the
\* blocks already there stay as they are.
C16_OneBlockPerLine ==
    /\ [][(onKeyDownEnter(MaxCommands) /\ ~Blank(input) /\ input \notin ClearLines) =>
            \/ OneBlockMore(output, output', Len(history) + 1) /\ pending' = pending
            \/ output' = output /\ pending' = pending \cup {Len(history) + 1}]_vars
    /\ [][(clipboardResolve \/ clipboardReject) =>
            \E id \in pending :
                pending' = pending \ {id} /\ OneBlockMore(output, output', id)]_vars
    /\ [][(onKeyDownEnter(MaxCommands) /\ input = <<"z", "z", " ", "t", "o", "p">>) =>
            output' = Append(output, OneLineBlock(
                <<"Command not found: ", "z", "z", ". Type /help.">>))]_vars
    /\ [][(~Reload /\ ~(onKeyDownEnter(MaxCommands) /\ input \in ClearLines)) =>
            (Len(output') >= Len(output)
               /\ SubSeq(output', 1, Len(output)) = output)]_vars


\* The line s from its first to its last character that is no whitespace.
Inner(s) ==
    LET solid == {i \in 1..Len(s) : s[i] \notin Whitespace}
    IN  IF solid = {} THEN <<>>
        ELSE SubSeq(s, CHOOSE i \in solid : \A j \in solid : i <= j,
                       CHOOSE i \in solid : \A j \in solid : i >= j)

\* C17, as claimed: the entry appended to the history is the input buffer as
\* it was when Enter was pressed, character for character, leading and
\* trailing whitespace included.
C17_HistoryVerbatim ==
    [][(onKeyDownEnter(MaxCommands) /\ ~Blank(input)) =>
          history' = Append(history, input)]_vars

\* C17, amended: the entry appended to the history is the input buffer
\* without its leading and trailing whitespace; the characters in between,
\* runs of blanks included, are recorded as typed.
C17_HistoryTrimmed ==
    [][(onKeyDownEnter(MaxCommands) /\ ~Blank(input)) =>
          /\ history' = Append(history, Inner(input))
          /\ localStorage'.history = stringifyArray(Append(history, Inner(input)))]_vars

\* C17 witness: the lines "  a<tab>" and " b  c" were submitted, in this
\* order: the history holds "a" and "b  c".
C17_Witness ==
    history = <<<<"a">>,
                <<"b", " ", " ", "c">>>>


\* The item holds a text that JSON.parse rejects.
Unparsable(item) == item.has /\ ~JSONparse(item.raw).ok

\* C18, as claimed: a load over an item that is absent or unparsable gives the
\* default, dark for the theme (but for an unparsable item that is the plain
\* name of a theme, which gives that theme) and the empty history; in every
\* state the theme is one of the four themes and the history an array, stored
\* as one.
C18_LoadFallsBack ==
    /\ [](theme \in ThemeNames)
    /\ [](JSONparse(localStorage.history).kind = "array")
    /\ [](\A ti \in LoadThemeItems :
             /\ (~ti.has \/ (Unparsable(ti) /\ ti.raw \notin ThemeNames))
                    => useLocalStorage(ti, dark) = dark
             /\ (Unparsable(ti) /\ ti.raw \in ThemeNames)
                    => useLocalStorage(ti, dark) = ti.raw)
    /\ [](\A hi \in LoadHistoryItems :
             (~hi.has \/ Unparsable(hi)) => historyEntries(hi) = <<>>)


\* The number of blocks of the scrollback o that have the id id.
BlocksOf(o, id) == Cardinality({b \in 1..Len(o) : o[b].id = id})

\* C19: a line submitted while a clipboard write is pending is recorded after
\* the lines before it and gets its block at once (a clear command empties the
\* scrollback), and the pending write stays pending; when the write settles,
\* one block with the one result line is appended for its command, and the
\* history and the blocks printed meanwhile stay as they are.  No command has
\* a block while its write is pending, and none ever has two.
C19_PendingCopyRace ==
    /\ [](\A id \in 1..Len(history) :
             /\ BlocksOf(output, id) <= 1
             /\ id \in pending => BlocksOf(output, id) = 0)
    /\ [][(onKeyDownEnter(MaxCommands) /\ pending # {} /\ ~Blank(input)) =>
            /\ history' = Append(history, input)
            /\ pending \subseteq pending'
            /\ \/ input \in ClearLines /\ output' = <<>>
               \/ input \notin ClearLines /\ pending' = pending
                    /\ OneBlockMore(output, output', Len(history) + 1)
               \/ input \notin ClearLines /\ output' = output
                    /\ pending' = pending \cup {Len(history) + 1}]_vars
    /\ [][(clipboardResolve \/ clipboardReject) =>
            \E id \in pending :
                /\ pending' = pending \ {id}
                /\ history' = history
                /\ output' = Append(output, [id |-> id, lines |-> <<CopiedLine>>])
                   \/ output' = Append(output, [id |-> id, lines |-> <<CopyFailedLine>>])]_vars

\* C19 witness: copy email was submitted, then an unknown command while the
\* write was pending, then the write resolved: both lines are in the history in
\* this order, and the scrollback holds the block of the second command
\* followed by the one block of the copy command.
C19_Witness ==
    /\ history = <<<<"c", "o", "p", "y", " ", "e", "m", "a", "i", "l">>,
                   <<"z", "z", " ", "<", "b", ">">>>>
    /\ pending = {}
    /\ output = <<[id |-> 2, lines |-> <<<<"Command not found: ", "z", "z",
                                           ". Type /help.">>>>],
                  [id |-> 1, lines |-> <<<<"Email copied to clipboard.">>>>]>>


\* C20, as claimed: ArrowDown with the cursor at -1 leaves the cursor at -1
\* and the input as it is, whatever has been typed into it.
C20_DownWhenNotBrowsing ==
    [][(onKeyDownArrowDown /\ historyIdx = -1) =>
          (historyIdx' = -1 /\ input' = input)]_vars

====
